---- MODULE Spec2Model ----
(***************************************************************************)
(* Model of grpc-ease's ReflectionClient (src/src/reflection.rs): the      *)
(* exchange primitive make_request, get_file_descriptor and the two-phase  *)
(* list_services, against a server and transport that may answer every    *)
(* exchange in any way the wire protocol allows.                           *)
(***************************************************************************)
EXTENDS Integers, Sequences, FiniteSets, TLC

\* ------------------------------------------------------------------ bounds
\* Longest list of names a ListServicesResponse carries in the model.
MaxNames == 2
\* Every list of at most this many payloads is a FileDescriptorResponse of the
\* model (besides DependencyResponses below).
MaxPayloads == 1
\* Most completed calls recorded in earlier, in the runs that record them.
MaxCalls == 2

\* ----------------------------------------------------------------- helpers
\* Option<T>: None is the empty tuple, Some(x) the one-element tuple.
None == <<>>
Some(x) == <<x>>
IsNone(o) == o = <<>>
IsSome(o) == o # <<>>

\* All sequences over S of length at most n.
SeqsUpTo(S, n) == UNION {[1..k -> S] : k \in 0..n}

RECURSIVE Concat(_)
\* Concatenation of a sequence of sequences, in order.
Concat(ss) == IF ss = <<>> THEN <<>> ELSE Head(ss) \o Concat(Tail(ss))

\* Result<T, E>: Ok(v), Err(e); Panic is the unwinding of a failed expect.
NoError == [kind |-> "", msg |-> "", args |-> <<>>]
Ok(v) == [k |-> "Ok", val |-> v, err |-> NoError]
Err(e) == [k |-> "Err", val |-> <<>>, err |-> e]
Panic == [k |-> "Panic", val |-> <<>>, err |-> NoError]
NoResult == [k |-> "None", val |-> <<>>, err |-> NoError]

\* The first Err of a sequence of results, or Ok of all their values: what
\* Iterator::collect::<Result<Vec<_>, _>>() and a `?` inside a for loop give.
Collect(rs) ==
    IF \E i \in 1..Len(rs) : rs[i].k = "Err"
    THEN rs[CHOOSE i \in 1..Len(rs) :
                /\ rs[i].k = "Err"
                /\ \A j \in 1..(i - 1) : rs[j].k # "Err"]
    ELSE Ok([i \in 1..Len(rs) |-> rs[i].val])

\* ------------------------------------------------------------- error values
\* The errors the client returns, by the expression that builds each.
StatusError == [kind |-> "TransportError", msg |-> "tonic::Status", args |-> <<>>]
NoResponseError ==
    [kind |-> "NoResponse", msg |-> "No response received", args |-> <<>>]
ExpectedListServices ==
    [kind |-> "UnexpectedResponseVariant",
     msg |-> "Expected a ListServicesResponse variant", args |-> <<>>]
ExpectedFileDescriptor ==
    [kind |-> "UnexpectedResponseVariant",
     msg |-> "Expected a FileDescriptorResponse variant", args |-> <<>>]
DecodeError == [kind |-> "DecodeError", msg |-> "prost::DecodeError", args |-> <<>>]
\* format!("... is missing for ..."): args are the values formatted into it.
MissingField(msg, args) == [kind |-> "MissingField", msg |-> msg, args |-> args]

\* ------------------------------------------------------------- wire payloads
\* A payload is a protobuf message: a sequence of fields, each a field number
\* with a string value (str) or an embedded message (sub).
StrField(tag, s) == [tag |-> tag, str |-> s, sub |-> <<>>]
MsgField(tag, m) == [tag |-> tag, str |-> "", sub |-> m]

\* Field numbers of descriptor.proto.
FileNameTag == 1
FilePackageTag == 2
FileServiceTag == 6
ServiceNameTag == 1
ServiceMethodTag == 2
MethodNameTag == 1
MethodInputTag == 2
MethodOutputTag == 3

SayHelloBytes ==
    << StrField(MethodNameTag, "SayHello"),
       StrField(MethodInputTag, "pkg.HelloRequest"),
       StrField(MethodOutputTag, "pkg.HelloReply") >>
PingBytes ==
    << StrField(MethodNameTag, "Ping"),
       StrField(MethodInputTag, "pkg.Empty"),
       StrField(MethodOutputTag, "pkg.Empty") >>
GreeterBytes ==
    << StrField(ServiceNameTag, "Greeter"), MsgField(ServiceMethodTag, SayHelloBytes) >>
\* A service with two methods.
HealthBytes ==
    << StrField(ServiceNameTag, "Health"),
       MsgField(ServiceMethodTag, PingBytes),
       MsgField(ServiceMethodTag, SayHelloBytes) >>

\* greeter.proto: package pkg, service Greeter { SayHello }.
pGreeter ==
    << StrField(FileNameTag, "greeter.proto"),
       StrField(FilePackageTag, "pkg"),
       MsgField(FileServiceTag, GreeterBytes) >>
\* A file that defines two services.
pTwoServices ==
    << StrField(FilePackageTag, "pkg"),
       MsgField(FileServiceTag, HealthBytes),
       MsgField(FileServiceTag, GreeterBytes) >>
\* A file of message types only: no service definition, and no package.
pNoServices == << StrField(FileNameTag, "types.proto") >>
\* Required-but-optional fields absent, one at a time.
pNoPackage == << MsgField(FileServiceTag, GreeterBytes) >>
pNoServiceName ==
    << StrField(FilePackageTag, "pkg"),
       MsgField(FileServiceTag, << MsgField(ServiceMethodTag, SayHelloBytes) >>) >>
pNoMethodName ==
    << StrField(FilePackageTag, "pkg"),
       MsgField(FileServiceTag,
           << StrField(ServiceNameTag, "Greeter"),
              MsgField(ServiceMethodTag,
                  << StrField(MethodInputTag, "pkg.HelloRequest"),
                     StrField(MethodOutputTag, "pkg.HelloReply") >>) >>) >>
pNoRequest ==
    << StrField(FilePackageTag, "pkg"),
       MsgField(FileServiceTag,
           << StrField(ServiceNameTag, "Greeter"),
              MsgField(ServiceMethodTag,
                  << StrField(MethodNameTag, "SayHello"),
                     StrField(MethodOutputTag, "pkg.HelloReply") >>) >>) >>
pNoResponse ==
    << StrField(FilePackageTag, "pkg"),
       MsgField(FileServiceTag,
           << StrField(ServiceNameTag, "Greeter"),
              MsgField(ServiceMethodTag,
                  << StrField(MethodNameTag, "SayHello"),
                     StrField(MethodInputTag, "pkg.HelloRequest") >>) >>) >>
\* Structurally invalid bytes: field number 0 is not a legal key.
pMalformed == << StrField(FilePackageTag, "pkg"), StrField(0, "") >>

\* A service that declares the method SayHello twice.
pDupMethods ==
    << StrField(FilePackageTag, "pkg"),
       MsgField(FileServiceTag,
           << StrField(ServiceNameTag, "Echo"),
              MsgField(ServiceMethodTag, SayHelloBytes),
              MsgField(ServiceMethodTag,
                  << StrField(MethodNameTag, "SayHello"),
                     StrField(MethodInputTag, "pkg.Empty"),
                     StrField(MethodOutputTag, "pkg.Empty") >>) >>) >>
\* Several required fields absent at once.
pAllAbsent == << MsgField(FileServiceTag, << MsgField(ServiceMethodTag, <<>>) >>) >>
pNoTypesNoPackage ==
    << MsgField(FileServiceTag,
           << StrField(ServiceNameTag, "Greeter"),
              MsgField(ServiceMethodTag, << StrField(MethodNameTag, "SayHello") >>) >>) >>
pNoResponseNoPackageNoServiceName ==
    << MsgField(FileServiceTag,
           << MsgField(ServiceMethodTag,
                  << StrField(MethodNameTag, "SayHello"),
                     StrField(MethodInputTag, "pkg.HelloRequest") >>) >>) >>
pNoPackageNoServiceName ==
    << MsgField(FileServiceTag, << MsgField(ServiceMethodTag, SayHelloBytes) >>) >>
pSecondMethodNamelessNoPackage ==
    << MsgField(FileServiceTag,
           << StrField(ServiceNameTag, "Greeter"),
              MsgField(ServiceMethodTag, SayHelloBytes),
              MsgField(ServiceMethodTag,
                  << StrField(MethodInputTag, "pkg.Empty"),
                     StrField(MethodOutputTag, "pkg.Empty") >>) >>) >>
pFirstNoResponseSecondNameless ==
    << StrField(FilePackageTag, "pkg"),
       MsgField(FileServiceTag,
           << StrField(ServiceNameTag, "Greeter"),
              MsgField(ServiceMethodTag,
                  << StrField(MethodNameTag, "SayHello"),
                     StrField(MethodInputTag, "pkg.HelloRequest") >>),
              MsgField(ServiceMethodTag, << StrField(MethodInputTag, "pkg.Empty") >>) >>) >>

\* The payloads of the runs that look at validation: two that pass it and the
\* ones that fail it.
ValidationPayloads ==
    { pTwoServices, pDupMethods, pNoPackage, pNoServiceName, pAllAbsent,
      pNoTypesNoPackage, pNoResponseNoPackageNoServiceName, pNoPackageNoServiceName,
      pSecondMethodNamelessNoPackage, pFirstNoResponseSecondNameless }

\* The payloads the modelled server may put in a FileDescriptorResponse.
Payloads ==
    { pGreeter, pTwoServices, pNoServices, pNoPackage, pNoServiceName,
      pNoMethodName, pNoRequest, pNoResponse, pMalformed }

\* Responses of a server that sends a file together with files it depends on
\* or that depend on it: several payloads in one FileDescriptorResponse.
DependencyResponses ==
    { <<pNoServices, pGreeter>>, <<pGreeter, pTwoServices>>,
      <<pGreeter, pMalformed>>, <<pGreeter, pNoRequest>>,
      <<pNoPackage, pMalformed>> }

\* The names the modelled server may list.
Symbols == { "pkg.Greeter", "pkg.Health" }

\* --------------------------------------------------------- Descriptor Decoder
\* The value of the last field numbered tag, if any (a singular field that
\* occurs more than once keeps its last value).
LastStr(fields, tag) ==
    LET at == {i \in 1..Len(fields) : fields[i].tag = tag}
    IN IF at = {} THEN None
       ELSE Some(fields[CHOOSE i \in at : \A j \in at : j <= i].str)

\* The embedded messages of the repeated field numbered tag, in wire order.
SubMsgs(fields, tag) ==
    LET Is(f) == f.tag = tag
        hit == SelectSeq(fields, Is)
    IN [i \in 1..Len(hit) |-> hit[i].sub]

\* Whether a message, or a message embedded in it, has an illegal key.
BadKey(fields) == \E i \in 1..Len(fields) : fields[i].tag = 0
Undecodable(payload) ==
    \/ BadKey(payload)
    \/ \E i \in 1..Len(payload) :
          \/ BadKey(payload[i].sub)
          \/ \E j \in 1..Len(payload[i].sub) : BadKey(payload[i].sub[j].sub)

DecodeMethod(fields) ==
    [name |-> LastStr(fields, MethodNameTag),
     input_type |-> LastStr(fields, MethodInputTag),
     output_type |-> LastStr(fields, MethodOutputTag)]

DecodeService(fields) ==
    LET ms == SubMsgs(fields, ServiceMethodTag)
    IN [name |-> LastStr(fields, ServiceNameTag),
        method |-> [i \in 1..Len(ms) |-> DecodeMethod(ms[i])]]

\* prost_types::FileDescriptorProto::decode: the fields the client reads.
Decode(payload) ==
    IF Undecodable(payload) THEN Err(DecodeError)
    ELSE LET ss == SubMsgs(payload, FileServiceTag)
         IN Ok([package |-> LastStr(payload, FilePackageTag),
                service |-> [i \in 1..Len(ss) |-> DecodeService(ss[i])]])

\* ------------------------------------------------------ requests and replies
ListServicesRequest ==
    [host |-> "", message_request |-> "ListServices", arg |-> ""]
FileContainingSymbolRequest(symbol) ==
    [host |-> "", message_request |-> "FileContainingSymbol", arg |-> symbol]

\* What one exchange can bring back: the call fails to open, the inbound
\* stream ends, its first item is an error, or its first item is a message
\* whose message_response is absent (v = "None") or one of the four variants;
\* rest holds the items the inbound stream would yield after the first.
Reply(t, v, service, fdp) ==
    [t |-> t, v |-> v, service |-> service, file_descriptor_proto |-> fdp,
     rest |-> <<>>]
\* The inbound stream of reply followed by the further items more.
FollowedBy(reply, more) == [reply EXCEPT !.rest = more]
OpenFails == Reply("OpenErr", "", <<>>, <<>>)
StreamEnds == Reply("End", "", <<>>, <<>>)
StreamErrors == Reply("ItemErr", "", <<>>, <<>>)
NoVariant == Reply("Msg", "None", <<>>, <<>>)
ErrorResponse == Reply("Msg", "ErrorResponse", <<>>, <<>>)
AllExtensionNumbersResponse == Reply("Msg", "AllExtensionNumbersResponse", <<>>, <<>>)
ListServicesResponse(service) == Reply("Msg", "ListServicesResponse", service, <<>>)
FileDescriptorResponse(fdp) == Reply("Msg", "FileDescriptorResponse", <<>>, fdp)

\* Inbound streams that yield further items after the first message.
LongerStreams ==
    { FollowedBy(FileDescriptorResponse(<<pGreeter>>), <<ErrorResponse>>),
      FollowedBy(ErrorResponse, <<FileDescriptorResponse(<<pGreeter>>)>>),
      FollowedBy(ListServicesResponse(<<"pkg.Greeter">>),
                 <<ListServicesResponse(<<>>), StreamErrors>>) }

Replies ==
    { OpenFails, StreamEnds, StreamErrors, NoVariant, ErrorResponse,
      AllExtensionNumbersResponse }
    \cup LongerStreams
    \cup { ListServicesResponse(n) : n \in SeqsUpTo(Symbols, MaxNames) }
    \cup { FileDescriptorResponse(p) :
              p \in SeqsUpTo(Payloads, MaxPayloads) \cup DependencyResponses }

\* The replies of the runs that look at validation.
ValidationReplies ==
    { StreamErrors }
    \cup { ListServicesResponse(n) : n \in SeqsUpTo(Symbols, MaxNames) }
    \cup { FileDescriptorResponse(p) : p \in SeqsUpTo(ValidationPayloads, MaxPayloads) }

\* The replies of the runs that record the earlier calls of the client.
CallReplies ==
    { StreamErrors,
      ListServicesResponse(<<"pkg.Greeter">>),
      ListServicesResponse(<<"pkg.Greeter", "pkg.Health">>),
      FileDescriptorResponse(<<pGreeter>>) }

\* ------------------------------------------------------------------- client
\* make_request with an ended stream reported as a transport status.
make_request_EndIsStatus(reply) ==
    CASE reply.t \in {"OpenErr", "End", "ItemErr"} -> Err(StatusError)
      [] OTHER -> IF reply.v = "None" THEN Panic ELSE Ok(reply)

\* make_request draining the inbound stream and keeping its last item.
make_request_LastItem(reply) ==
    LET last == IF reply.rest = <<>> THEN reply ELSE reply.rest[Len(reply.rest)]
    IN CASE last.t = "OpenErr" -> Err(StatusError)
         [] last.t = "End" -> Err(NoResponseError)
         [] last.t = "ItemErr" -> Err(StatusError)
         [] OTHER -> IF last.v = "None" THEN Panic ELSE Ok(last)

\* make_request, given what the exchange brings back.
make_request(reply) ==
    CASE reply.t = "OpenErr" -> Err(StatusError)
      [] reply.t = "End" -> Err(NoResponseError)
      [] reply.t = "ItemErr" -> Err(StatusError)
      [] OTHER -> IF reply.v = "None" THEN Panic ELSE Ok(reply)

\* get_file_descriptor taking any other variant for an empty response.
get_file_descriptor_Lenient(reply) ==
    LET response == make_request(reply)
    IN IF response.k # "Ok" THEN response
       ELSE LET raw == response.val.file_descriptor_proto
            IN Collect([i \in 1..Len(raw) |-> Decode(raw[i])])

\* get_file_descriptor leaving out the payloads that fail to decode.
get_file_descriptor_SkipUndecodable(reply) ==
    LET response == make_request(reply)
    IN IF response.k # "Ok" THEN response
       ELSE IF response.val.v = "FileDescriptorResponse"
       THEN LET Decodes(p) == ~Undecodable(p)
                raw == SelectSeq(response.val.file_descriptor_proto, Decodes)
            IN Collect([i \in 1..Len(raw) |-> Decode(raw[i])])
       ELSE Err(ExpectedFileDescriptor)

\* get_file_descriptor checking the decoded descriptors for absent fields.
get_file_descriptor_Validating(reply) ==
    LET response == make_request(reply)
    IN IF response.k # "Ok" THEN response
       ELSE IF response.val.v = "FileDescriptorResponse"
       THEN LET raw == response.val.file_descriptor_proto
                decoded == Collect([i \in 1..Len(raw) |-> Decode(raw[i])])
            IN IF decoded.k # "Ok" THEN decoded
               ELSE LET checked ==
                            Collect(Concat([i \in 1..Len(decoded.val) |->
                                [j \in 1..Len(decoded.val[i].service) |->
                                    IF IsNone(decoded.val[i].package)
                                    THEN Err(MissingField(
                                            "Package name is missing for service",
                                            <<decoded.val[i].service[j].name>>))
                                    ELSE Ok(decoded.val[i].service[j])]]))
                    IN IF checked.k # "Ok" THEN checked ELSE decoded
       ELSE Err(ExpectedFileDescriptor)

\* get_file_descriptor from the return of its make_request on.
get_file_descriptor(reply) ==
    LET response == make_request(reply)
    IN IF response.k # "Ok" THEN response
       ELSE IF response.val.v = "FileDescriptorResponse"
       THEN LET raw == response.val.file_descriptor_proto
            IN Collect([i \in 1..Len(raw) |-> Decode(raw[i])])
       ELSE Err(ExpectedFileDescriptor)

\* The closure naming each method after its service.
MethodInfoOf_ServiceName(method, service) ==
    IF IsNone(method.name)
    THEN Err(MissingField("Method name is missing for service", <<service.name>>))
    ELSE IF IsNone(method.input_type)
    THEN Err(MissingField("Request type is missing for method in service",
                          <<method.name, service.name>>))
    ELSE IF IsNone(method.output_type)
    THEN Err(MissingField("Response type is missing for method in service",
                          <<method.name, service.name>>))
    ELSE Ok([name |-> IF IsNone(service.name) THEN method.name[1] ELSE service.name[1],
             request |-> method.input_type[1],
             response |-> method.output_type[1]])

\* The closure mapped over service.method.
MethodInfoOf(method, service) ==
    IF IsNone(method.name)
    THEN Err(MissingField("Method name is missing for service", <<service.name>>))
    ELSE IF IsNone(method.input_type)
    THEN Err(MissingField("Request type is missing for method in service",
                          <<method.name, service.name>>))
    ELSE IF IsNone(method.output_type)
    THEN Err(MissingField("Response type is missing for method in service",
                          <<method.name, service.name>>))
    ELSE Ok([name |-> method.name[1],
             request |-> method.input_type[1],
             response |-> method.output_type[1]])

\* The loop body with an absent package defaulted to the empty string.
ServiceInfoOf_DefaultPackage(file_descriptor, service) ==
    LET methods ==
            Collect([i \in 1..Len(service.method) |->
                        MethodInfoOf(service.method[i], service)])
    IN IF methods.k = "Err" THEN methods
       ELSE IF IsNone(service.name)
       THEN Err(MissingField("Service name is missing for package",
                             <<file_descriptor.package>>))
       ELSE Ok([package |-> IF IsNone(file_descriptor.package) THEN ""
                            ELSE file_descriptor.package[1],
                service |-> service.name[1],
                methods |-> methods.val])

\* The loop body checking the package before the methods.
ServiceInfoOf_PackageFirst(file_descriptor, service) ==
    IF IsNone(file_descriptor.package)
    THEN Err(MissingField("Package name is missing for service", <<service.name>>))
    ELSE LET methods ==
                 Collect([i \in 1..Len(service.method) |->
                             MethodInfoOf(service.method[i], service)])
         IN IF methods.k = "Err" THEN methods
            ELSE IF IsNone(service.name)
            THEN Err(MissingField("Service name is missing for package",
                                  <<file_descriptor.package>>))
            ELSE Ok([package |-> file_descriptor.package[1],
                     service |-> service.name[1],
                     methods |-> methods.val])

\* The body of `for service in file_descriptor.service`, up to the push.
ServiceInfoOf(file_descriptor, service) ==
    LET methods ==
            Collect([i \in 1..Len(service.method) |->
                        MethodInfoOf(service.method[i], service)])
    IN IF methods.k = "Err" THEN methods
       ELSE IF IsNone(file_descriptor.package)
       THEN Err(MissingField("Package name is missing for service", <<service.name>>))
       ELSE IF IsNone(service.name)
       THEN Err(MissingField("Service name is missing for package",
                             <<file_descriptor.package>>))
       ELSE Ok([package |-> file_descriptor.package[1],
                service |-> service.name[1],
                methods |-> methods.val])

\* The inner loops taking only the first service of each descriptor.
Assemble_FirstServiceOnly(descriptors) ==
    Collect(Concat([i \in 1..Len(descriptors) |->
        IF descriptors[i].service = <<>> THEN <<>>
        ELSE <<ServiceInfoOf(descriptors[i], descriptors[i].service[1])>>]))

\* The two inner for loops over the descriptors of one exchange: the services
\* they push, in order, or the first error.
Assemble(descriptors) ==
    Collect(Concat([i \in 1..Len(descriptors) |->
        [j \in 1..Len(descriptors[i].service) |->
            ServiceInfoOf(descriptors[i], descriptors[i].service[j])]]))

\* Insertion at the front instead of push.
Push_Front(info, items) == items \o info

\* services_info.push, for the services of one exchange.
Push(info, items) == info \o items

\* The names with repetitions removed.
NamesToFetch_Dedup(service) ==
    LET first == {k \in 1..Len(service) : \A j \in 1..(k - 1) : service[j] # service[k]}
    IN [n \in 1..Cardinality(first) |->
           service[CHOOSE k \in first : Cardinality({j \in first : j < k}) = n - 1]]

\* The names phase 2 fetches, in order: `for service in services_response.service`.
NamesToFetch(service) == service

\* Phase 1 refusing an empty list of services.
Phase1_EmptyIsError(reply) ==
    LET response == make_request(reply)
    IN IF response.k # "Ok" THEN response
       ELSE IF response.val.v = "ListServicesResponse" /\ response.val.service # <<>>
       THEN Ok(NamesToFetch(response.val.service))
       ELSE Err(ExpectedListServices)

\* Phase 1 reading the service list of whatever variant came.
Phase1_AnyVariant(reply) ==
    LET response == make_request(reply)
    IN IF response.k # "Ok" THEN response
       ELSE Ok(NamesToFetch(response.val.service))

\* list_services from the return of its first make_request to the loop: the
\* names to fetch, or the error returned.
Phase1(reply) ==
    LET response == make_request(reply)
    IN IF response.k # "Ok" THEN response
       ELSE IF response.val.v = "ListServicesResponse"
       THEN Ok(NamesToFetch(response.val.service))
       ELSE Err(ExpectedListServices)

\* The loop body skipping a name whose fetch failed instead of returning.
Phase2_SkipFailed(info, reply) ==
    LET descriptors == get_file_descriptor(reply)
    IN IF descriptors.k = "Panic" THEN descriptors
       ELSE IF descriptors.k = "Err" THEN Ok(info)
       ELSE LET pushed == Assemble(descriptors.val)
            IN IF pushed.k # "Ok" THEN pushed
               ELSE Ok(Push(info, pushed.val))

\* The loop body skipping the descriptors of an exchange that fail validation.
Phase2_SkipInvalid(info, reply) ==
    LET descriptors == get_file_descriptor(reply)
    IN IF descriptors.k # "Ok" THEN descriptors
       ELSE LET pushed == Assemble(descriptors.val)
            IN IF pushed.k # "Ok" THEN Ok(info)
               ELSE Ok(Push(info, pushed.val))

\* One pass of the loop body after get_file_descriptor returned: `?` on its
\* result, then the inner loops; the services_info after it, or the error
\* list_services returns (services_info is dropped with the frame).
Phase2(info, reply) ==
    LET descriptors == get_file_descriptor(reply)
    IN IF descriptors.k # "Ok" THEN descriptors
       ELSE LET pushed == Assemble(descriptors.val)
            IN IF pushed.k # "Ok" THEN pushed
               ELSE Ok(Push(info, pushed.val))

\* -------------------------------------------------------------------- state
VARIABLES
    pc,             \* where the caller's one flow of control is
    op,             \* the public operation in progress, "" when none
    sent,           \* the requests this call has sent, one stream each, in order
    rcvd,           \* what each of those exchanges brought back, in order
    names,          \* list_services: services_response.service
    i,              \* list_services: the index in names of the exchange in flight
    services_info,  \* list_services: the vector being accumulated
    fetched_for,    \* for each service pushed, the index in names it was fetched for
    result,         \* what the operation returned to its caller
    earlier,        \* the calls this client has completed before, when recorded
    cli,            \* cli_loop: "off" when the client is used as a library
    input,          \* cli_loop: the line last read, as characters
    out             \* cli_loop: what it printed last

\* What the client's methods do not touch.
env == <<earlier, cli, input, out>>

vars == <<pc, op, sent, rcvd, names, i, services_info, fetched_for, result,
          earlier, cli, input, out>>

\* What cli_loop prints: nothing yet, the catalog, the error, or the notice.
Output(text, services, err) == [text |-> text, services |-> services, err |-> err]
NoOutput == Output("", <<>>, NoError)

Init ==
    /\ pc = "idle"
    /\ op = ""
    /\ sent = <<>>
    /\ rcvd = <<>>
    /\ names = <<>>
    /\ i = 0
    /\ services_info = <<>>
    /\ fetched_for = <<>>
    /\ result = NoResult
    /\ earlier = <<>>
    /\ cli = "off"
    /\ input = <<>>
    /\ out = NoOutput

\* A vector kept in the client and not cleared: what the last successful
\* list_services left in it.
NewVec_Stale ==
    LET done == {e \in 1..Len(earlier) :
                    earlier[e].op = "list_services" /\ earlier[e].result.k = "Ok"}
    IN IF done = {} THEN <<>>
       ELSE earlier[CHOOSE e \in done : \A f \in done : f <= e].result.val

\* `let mut services_info = Vec::new()`.
NewVec == <<>>

\* The operation ends: its locals are dropped and r goes to the caller.
Finish(r) ==
    /\ pc' = IF r.k = "Panic" THEN "panicked" ELSE "returned"
    /\ result' = r
    /\ names' = <<>>
    /\ i' = 0
    /\ services_info' = <<>>

\* The head of `for service in services_response.service` at index idx with
\* info accumulated: the next exchange is opened, or the loop is over and
\* Ok(services_info) is returned.
Loop(nm, idx, info) ==
    IF idx <= Len(nm)
    THEN /\ pc' = "phase2"
         /\ sent' = Append(sent, FileContainingSymbolRequest(nm[idx]))
         /\ names' = nm
         /\ i' = idx
         /\ services_info' = info
         /\ result' = NoResult
    ELSE /\ Finish(Ok(info))
         /\ sent' = sent

\* list_services is called: the ListServices exchange is opened.
ListServicesCall ==
    /\ pc = "idle"
    /\ pc' = "phase1"
    /\ op' = "list_services"
    /\ sent' = <<ListServicesRequest>>
    /\ UNCHANGED <<rcvd, names, i, services_info, fetched_for, result>>

\* The ListServices exchange is over.
ListServicesPhase1(reply) ==
    /\ pc = "phase1"
    /\ rcvd' = Append(rcvd, reply)
    /\ LET r == Phase1(reply)
       IN IF r.k = "Ok"
          THEN Loop(r.val, 1, NewVec)
          ELSE Finish(r) /\ sent' = sent
    /\ UNCHANGED <<op, fetched_for>>

\* The loop body sending the request for names[i] once more when its first
\* exchange failed.
ListServicesPhase2_Retry(reply) ==
    /\ pc = "phase2"
    /\ rcvd' = Append(rcvd, reply)
    /\ LET r == Phase2(services_info, reply)
       IN IF r.k = "Ok"
          THEN /\ Loop(names, i + 1, r.val)
               /\ fetched_for' =
                    fetched_for \o [n \in 1..(Len(r.val) - Len(services_info)) |-> i]
          ELSE IF r.k = "Err" /\ Len(rcvd) = i
          THEN /\ sent' = Append(sent, FileContainingSymbolRequest(names[i]))
               /\ UNCHANGED <<pc, names, i, services_info, fetched_for, result>>
          ELSE /\ Finish(r)
               /\ sent' = sent
               /\ fetched_for' = fetched_for
    /\ UNCHANGED op

\* The FileContainingSymbol exchange for names[i] is over.
ListServicesPhase2(reply) ==
    /\ pc = "phase2"
    /\ rcvd' = Append(rcvd, reply)
    /\ LET r == Phase2(services_info, reply)
       IN IF r.k = "Ok"
          THEN /\ Loop(names, i + 1, r.val)
               /\ fetched_for' =
                    fetched_for \o [n \in 1..(Len(r.val) - Len(services_info)) |-> i]
          ELSE /\ Finish(r)
               /\ sent' = sent
               /\ fetched_for' = fetched_for
    /\ UNCHANGED op

\* get_file_descriptor(symbol) is called by the client's user.
GetFileDescriptorCall(symbol) ==
    /\ pc = "idle"
    /\ pc' = "fetch"
    /\ op' = "get_file_descriptor"
    /\ sent' = <<FileContainingSymbolRequest(symbol)>>
    /\ UNCHANGED <<rcvd, names, i, services_info, fetched_for, result>>

\* Its exchange is over.
GetFileDescriptorReturn(reply) ==
    /\ pc = "fetch"
    /\ rcvd' = Append(rcvd, reply)
    /\ Finish(get_file_descriptor(reply))
    /\ UNCHANGED <<op, sent, fetched_for>>

\* The caller has taken the result; the client is ready for the next call.
Return ==
    /\ pc = "returned"
    /\ pc' = "idle"
    /\ op' = ""
    /\ sent' = <<>>
    /\ rcvd' = <<>>
    /\ fetched_for' = <<>>
    /\ result' = NoResult
    /\ UNCHANGED <<names, i, services_info>>

Next ==
    \/ ListServicesCall /\ UNCHANGED env
    \/ \E reply \in Replies : ListServicesPhase1(reply) /\ UNCHANGED env
    \/ \E reply \in Replies : ListServicesPhase2(reply) /\ UNCHANGED env
    \/ \E symbol \in Symbols : GetFileDescriptorCall(symbol) /\ UNCHANGED env
    \/ \E reply \in Replies : GetFileDescriptorReturn(reply) /\ UNCHANGED env
    \/ Return /\ UNCHANGED env

Spec == Init /\ [][Next]_vars

\* The same client against the replies that look at validation.
NextValidation ==
    \/ ListServicesCall /\ UNCHANGED env
    \/ \E reply \in ValidationReplies : ListServicesPhase1(reply) /\ UNCHANGED env
    \/ \E reply \in ValidationReplies : ListServicesPhase2(reply) /\ UNCHANGED env
    \/ \E symbol \in Symbols : GetFileDescriptorCall(symbol) /\ UNCHANGED env
    \/ \E reply \in ValidationReplies : GetFileDescriptorReturn(reply) /\ UNCHANGED env
    \/ Return /\ UNCHANGED env

SpecValidation == Init /\ [][NextValidation]_vars

\* Return, with the call that ends written down in earlier.
ReturnRecorded ==
    /\ Len(earlier) < MaxCalls
    /\ Return
    /\ earlier' = Append(earlier, [op |-> op, sent |-> sent, rcvd |-> rcvd,
                                   result |-> result])
    /\ UNCHANGED <<cli, input, out>>

\* One client used for call after call, its completed calls recorded.
NextCalls ==
    \/ ListServicesCall /\ UNCHANGED env
    \/ \E reply \in CallReplies : ListServicesPhase1(reply) /\ UNCHANGED env
    \/ \E reply \in CallReplies : ListServicesPhase2(reply) /\ UNCHANGED env
    \/ \E symbol \in Symbols : GetFileDescriptorCall(symbol) /\ UNCHANGED env
    \/ \E reply \in CallReplies : GetFileDescriptorReturn(reply) /\ UNCHANGED env
    \/ ReturnRecorded

SpecCalls == Init /\ [][NextCalls]_vars

\* ---------------------------------------------------------------- cli_loop
\* Lines are sequences of characters, as read_line delivers them.
Whitespace == {" ", "\n", "\t", "\r"}
UpperCase == <<"A", "B", "C", "D", "E", "F", "G", "H", "I", "J", "K", "L", "M",
               "N", "O", "P", "Q", "R", "S", "T", "U", "V", "W", "X", "Y", "Z">>
LowerCase == <<"a", "b", "c", "d", "e", "f", "g", "h", "i", "j", "k", "l", "m",
               "n", "o", "p", "q", "r", "s", "t", "u", "v", "w", "x", "y", "z">>

\* u8::to_ascii_lowercase.
ToAsciiLowercase(c) ==
    IF \E n \in 1..Len(UpperCase) : UpperCase[n] = c
    THEN LowerCase[CHOOSE n \in 1..Len(UpperCase) : UpperCase[n] = c]
    ELSE c

\* str::eq_ignore_ascii_case.
eq_ignore_ascii_case(a, b) ==
    /\ Len(a) = Len(b)
    /\ \A n \in 1..Len(a) : ToAsciiLowercase(a[n]) = ToAsciiLowercase(b[n])

\* str::trim: the line without its leading and trailing whitespace.
trim(line) ==
    LET solid == {n \in 1..Len(line) : line[n] \notin Whitespace}
    IN IF solid = {} THEN <<>>
       ELSE LET lo == CHOOSE n \in solid : \A m \in solid : n <= m
                hi == CHOOSE n \in solid : \A m \in solid : m <= n
            IN [n \in 1..(hi - lo + 1) |-> line[lo + n - 1]]

ListServicesCommand == <<"l", "i", "s", "t", " ", "s", "e", "r", "v", "i", "c", "e", "s">>
ExitCommand == <<"e", "x", "i", "t">>

\* The lines typed at the prompt in the model; the empty line is end of input.
Lines ==
    { <<"l", "i", "s", "t", " ", "s", "e", "r", "v", "i", "c", "e", "s", "\n">>,
      <<" ", " ", "L", "I", "S", "T", " ", "S", "e", "r", "v", "i", "c", "e", "s", " ", "\n">>,
      <<"e", "x", "i", "t", "\n">>,
      <<"E", "x", "i", "t">>,
      <<"l", "i", "s", "t", " ", " ", "s", "e", "r", "v", "i", "c", "e", "s", "\n">>,
      <<"e", "x", "i", "t", " ", "n", "o", "w", "\n">>,
      <<"l", "i", "s", "t", "s", "\n">>,
      <<>> }

\* The replies of the server the command line is pointed at.
CliReplies == CallReplies \cup {NoVariant, FileDescriptorResponse(<<pNoPackage>>)}

\* main has connected and entered cli_loop.
InitCli ==
    /\ pc = "idle"
    /\ op = ""
    /\ sent = <<>>
    /\ rcvd = <<>>
    /\ names = <<>>
    /\ i = 0
    /\ services_info = <<>>
    /\ fetched_for = <<>>
    /\ result = NoResult
    /\ earlier = <<>>
    /\ cli = "prompt"
    /\ input = <<>>
    /\ out = NoOutput

\* One line is read and matched: list_services is called, the loop breaks, or
\* the notice is printed and the loop goes round.
CliCommand(line) ==
    /\ cli = "prompt"
    /\ input' = trim(line)
    /\ IF eq_ignore_ascii_case(input', ListServicesCommand)
       THEN /\ ListServicesCall
            /\ cli' = "listing"
            /\ out' = out
       ELSE IF eq_ignore_ascii_case(input', ExitCommand)
       THEN /\ cli' = "exited"
            /\ out' = out
            /\ UNCHANGED <<pc, op, sent, rcvd, names, i, services_info,
                           fetched_for, result>>
       ELSE /\ cli' = "prompt"
            /\ out' = Output("Unrecognized command.", <<>>, NoError)
            /\ UNCHANGED <<pc, op, sent, rcvd, names, i, services_info,
                           fetched_for, result>>
    /\ UNCHANGED earlier

\* A panic inside list_services unwinds through cli_loop and main.
Unwind == cli' = IF pc' = "panicked" THEN "crashed" ELSE cli

\* list_services returned to the match: the catalog or the error is printed
\* and the loop goes round.
CliPrint ==
    /\ cli = "listing"
    /\ Return
    /\ out' = IF result.k = "Ok"
              THEN Output("Service:", result.val, NoError)
              ELSE Output("Error listing services:", <<>>, result.err)
    /\ cli' = "prompt"
    /\ UNCHANGED <<earlier, input>>

NextCli ==
    \/ \E line \in Lines : CliCommand(line)
    \/ \E reply \in CliReplies :
          /\ cli = "listing"
          /\ ListServicesPhase1(reply)
          /\ Unwind
          /\ UNCHANGED <<earlier, input, out>>
    \/ \E reply \in CliReplies :
          /\ cli = "listing"
          /\ ListServicesPhase2(reply)
          /\ Unwind
          /\ UNCHANGED <<earlier, input, out>>
    \/ CliPrint

SpecCli == InitCli /\ [][NextCli]_vars

\* ------------------------------------------------------------ the properties
\* What the payloads of the model describe, written out by hand.
SayHelloInfo ==
    [name |-> "SayHello", request |-> "pkg.HelloRequest", response |-> "pkg.HelloReply"]
PingInfo == [name |-> "Ping", request |-> "pkg.Empty", response |-> "pkg.Empty"]
GreeterInfo == [package |-> "pkg", service |-> "Greeter", methods |-> <<SayHelloInfo>>]
HealthInfo == [package |-> "pkg", service |-> "Health", methods |-> <<PingInfo, SayHelloInfo>>]

\* Payloads that decode and pass validation, and the services each defines.
ValidPayloads == {pGreeter, pTwoServices, pNoServices}
ServicesDefinedBy(payload) ==
    CASE payload = pGreeter -> <<GreeterInfo>>
      [] payload = pTwoServices -> <<HealthInfo, GreeterInfo>>
      [] OTHER -> <<>>
\* Payloads that decode to a service definition lacking a required field.
IncompletePayloads ==
    {pNoPackage, pNoServiceName, pNoMethodName, pNoRequest, pNoResponse}

\* The services a FileDescriptorResponse of valid payloads defines, in order.
ServicesDefinedIn(reply) ==
    Concat([j \in 1..Len(reply.file_descriptor_proto) |->
                ServicesDefinedBy(reply.file_descriptor_proto[j])])

InListServices == op = "list_services"
ReturnedFrom(o) == pc = "returned" /\ op = o
\* The names phase 1 received (when it received a ListServicesResponse).
Phase1Names == rcvd[1].service
Phase1Listed ==
    /\ InListServices /\ Len(rcvd) >= 1
    /\ rcvd[1].t = "Msg" /\ rcvd[1].v = "ListServicesResponse"

\* How an exchange for a file descriptor fails short of validation: the kind
\* of error expected, "" when it does not fail this way.
FetchFailure(reply) ==
    CASE reply.t \in {"OpenErr", "ItemErr"} -> "TransportError"
      [] reply.t = "End" -> "NoResponse"
      [] reply.t = "Msg" /\ reply.v \notin {"FileDescriptorResponse", "None"} ->
            "UnexpectedResponseVariant"
      [] /\ reply.t = "Msg" /\ reply.v = "FileDescriptorResponse"
         /\ \E j \in 1..Len(reply.file_descriptor_proto) :
                reply.file_descriptor_proto[j] = pMalformed -> "DecodeError"
      [] OTHER -> ""

\* C1 (all-or-nothing): whenever a phase-2 exchange of list_services fails
\* (transport error, no response, wrong variant, decode error), it is the last
\* exchange of the call, and the call has returned that error and no catalog,
\* whatever the earlier exchanges materialized.
C1_AllOrNothing ==
    InListServices =>
        \A k \in 2..Len(rcvd) :
            FetchFailure(rcvd[k]) # "" =>
                /\ k = Len(rcvd)
                /\ pc = "returned"
                /\ result.k = "Err"
                /\ result.err.kind = FetchFailure(rcvd[k])
                /\ result.val = <<>>

\* The second of two exchanges fails with a transport error after the first
\* materialized pkg.Greeter.
C1_Witness ==
    /\ ReturnedFrom("list_services")
    /\ rcvd = << ListServicesResponse(<<"pkg.Greeter", "pkg.Health">>),
                 FileDescriptorResponse(<<pGreeter>>), OpenFails >>
    /\ result = Err(StatusError)

\* C2 (order preservation): the phase-2 exchanges are issued in the order of
\* the names of phase 1, and in the returned catalog the services fetched for
\* an earlier name precede those fetched for a later one; each service of the
\* catalog is one that the exchange it is attributed to defined.
C2_OrderPreserved ==
    Phase1Listed =>
        /\ \A k \in 2..Len(sent) :
              /\ k - 1 <= Len(Phase1Names)
              /\ sent[k] = FileContainingSymbolRequest(Phase1Names[k - 1])
        /\ \A a, b \in 1..Len(fetched_for) : a < b => fetched_for[a] <= fetched_for[b]
        /\ (pc = "returned" /\ result.k = "Ok") =>
              /\ Len(fetched_for) = Len(result.val)
              /\ \A a \in 1..Len(result.val) :
                    \E n \in 1..Len(ServicesDefinedIn(rcvd[fetched_for[a] + 1])) :
                        ServicesDefinedIn(rcvd[fetched_for[a] + 1])[n] = result.val[a]

\* Two names, different services for each: Health's file first, then Greeter's.
C2_Witness ==
    /\ ReturnedFrom("list_services")
    /\ rcvd = << ListServicesResponse(<<"pkg.Health", "pkg.Greeter">>),
                 FileDescriptorResponse(<<pTwoServices>>),
                 FileDescriptorResponse(<<pGreeter>>) >>
    /\ result = Ok(<<HealthInfo, GreeterInfo, GreeterInfo>>)
    /\ fetched_for = <<1, 1, 2>>

\* C3 (exchange count): a list_services call that succeeds after phase 1
\* returned N names has sent exactly one ListServices request followed by N
\* FileContainingSymbol requests, the i-th for the i-th name, repeated names
\* included, and has received one reply for each.
C3_ExchangeCount ==
    (ReturnedFrom("list_services") /\ result.k = "Ok") =>
        /\ Phase1Listed
        /\ Len(sent) = 1 + Len(Phase1Names)
        /\ Len(rcvd) = Len(sent)
        /\ sent[1] = ListServicesRequest
        /\ \A k \in 1..Len(Phase1Names) :
              sent[k + 1] = FileContainingSymbolRequest(Phase1Names[k])

\* The same name listed twice is fetched twice.
C3_Witness ==
    /\ ReturnedFrom("list_services")
    /\ result.k = "Ok"
    /\ Phase1Names = <<"pkg.Greeter", "pkg.Greeter">>
    /\ sent = << ListServicesRequest, FileContainingSymbolRequest("pkg.Greeter"),
                 FileContainingSymbolRequest("pkg.Greeter") >>

C5_ValidationComplete ==
    InListServices =>
        /\ \A k \in 2..Len(rcvd) :
              ( /\ rcvd[k].t = "Msg" /\ rcvd[k].v = "FileDescriptorResponse"
                /\ FetchFailure(rcvd[k]) = ""
                /\ \E j \in 1..Len(rcvd[k].file_descriptor_proto) :
                      rcvd[k].file_descriptor_proto[j] \in IncompletePayloads )
              => /\ k = Len(rcvd)
                 /\ pc = "returned"
                 /\ result.k = "Err"
                 /\ result.err.kind = "MissingField"
                 /\ result.val = <<>>
        /\ (pc = "returned" /\ result.k = "Ok") =>
              \A a \in 1..Len(result.val) :
                 /\ result.val[a].package # "" /\ result.val[a].service # ""
                 /\ \A m \in 1..Len(result.val[a].methods) :
                       /\ result.val[a].methods[m].name # ""
                       /\ result.val[a].methods[m].request # ""
                       /\ result.val[a].methods[m].response # ""

\* A method without a request type in the second file of the second exchange.
C5_Witness ==
    /\ ReturnedFrom("list_services")
    /\ rcvd = << ListServicesResponse(<<"pkg.Health", "pkg.Greeter">>),
                 FileDescriptorResponse(<<pTwoServices>>),
                 FileDescriptorResponse(<<pGreeter, pNoRequest>>) >>
    /\ result.k = "Err"
    /\ result.err.kind = "MissingField"

\* C6 (empty catalog): a ListServicesResponse with zero names makes
\* list_services return Ok of the empty sequence without a phase-2 exchange.
C6_EmptyCatalog ==
    (Phase1Listed /\ Phase1Names = <<>>) =>
        /\ pc = "returned"
        /\ result = Ok(<<>>)
        /\ sent = <<ListServicesRequest>>
        /\ Len(rcvd) = 1

C6_Witness ==
    /\ ReturnedFrom("list_services")
    /\ rcvd = <<ListServicesResponse(<<>>)>>
    /\ result.k = "Ok"

\* C7 (phase-1 mismatch): a reply to ListServices that carries a variant other
\* than ListServicesResponse makes list_services return
\* UnexpectedResponseVariant without a phase-2 exchange.
C7_Phase1Mismatch ==
    ( /\ InListServices /\ Len(rcvd) >= 1
      /\ rcvd[1].t = "Msg" /\ rcvd[1].v \notin {"ListServicesResponse", "None"} )
    => /\ pc = "returned"
       /\ result.k = "Err"
       /\ result.err.kind = "UnexpectedResponseVariant"
       /\ sent = <<ListServicesRequest>>
       /\ Len(rcvd) = 1

C7_Witness ==
    /\ ReturnedFrom("list_services")
    /\ rcvd = <<FileDescriptorResponse(<<pGreeter>>)>>
    /\ result = Err(ExpectedListServices)

\* C8 (phase-2 mismatch): a reply to a FileContainingSymbol exchange, of
\* get_file_descriptor or of phase 2, that carries a variant other than
\* FileDescriptorResponse makes the operation return
\* UnexpectedResponseVariant; in list_services it ends the call without a
\* catalog.
C8_Phase2Mismatch ==
    \A k \in 1..Len(rcvd) :
        ( /\ sent[k].message_request = "FileContainingSymbol"
          /\ rcvd[k].t = "Msg" /\ rcvd[k].v \notin {"FileDescriptorResponse", "None"} )
        => /\ k = Len(rcvd)
           /\ pc = "returned"
           /\ result.k = "Err"
           /\ result.err.kind = "UnexpectedResponseVariant"
           /\ result.val = <<>>

\* The second exchange of phase 2 is answered with a ListServicesResponse
\* after the first materialized two services.
C8_Witness ==
    /\ ReturnedFrom("list_services")
    /\ Len(rcvd) = 3
    /\ rcvd[2] = FileDescriptorResponse(<<pTwoServices>>)
    /\ rcvd[3] = ListServicesResponse(<<"pkg.Greeter">>)
    /\ result = Err(ExpectedFileDescriptor)

\* C9 (every failure is a returned error): whatever an exchange brings back,
\* the operation ends by returning Ok or Err to its caller, and never by a
\* panic.
C9_AlwaysReturns ==
    /\ pc \in {"idle", "phase1", "phase2", "fetch", "returned"}
    /\ pc = "returned" => result.k \in {"Ok", "Err"}

\* C10 (NoResponse, TransportError): an exchange whose inbound stream ends
\* before a message fails the operation with NoResponse; one that cannot be
\* opened, or whose first item is an error, fails it with TransportError.
C10_ExchangeErrors ==
    \A k \in 1..Len(rcvd) :
        rcvd[k].t \in {"End", "OpenErr", "ItemErr"} =>
            /\ k = Len(rcvd)
            /\ pc = "returned"
            /\ result.k = "Err"
            /\ result.err.kind =
                  (IF rcvd[k].t = "End" THEN "NoResponse" ELSE "TransportError")

\* get_file_descriptor's stream ends without a message.
C10_Witness ==
    /\ ReturnedFrom("get_file_descriptor")
    /\ rcvd = <<StreamEnds>>
    /\ result = Err(NoResponseError)

\* What the decodable payloads of the model decode to, written out by hand.
SayHelloProto ==
    [name |-> <<"SayHello">>, input_type |-> <<"pkg.HelloRequest">>,
     output_type |-> <<"pkg.HelloReply">>]
PingProto ==
    [name |-> <<"Ping">>, input_type |-> <<"pkg.Empty">>, output_type |-> <<"pkg.Empty">>]
GreeterProto == [name |-> <<"Greeter">>, method |-> <<SayHelloProto>>]
HealthProto == [name |-> <<"Health">>, method |-> <<PingProto, SayHelloProto>>]
DescriptorOf(payload) ==
    CASE payload = pGreeter -> [package |-> <<"pkg">>, service |-> <<GreeterProto>>]
      [] payload = pTwoServices ->
            [package |-> <<"pkg">>, service |-> <<HealthProto, GreeterProto>>]
      [] payload = pNoServices -> [package |-> <<>>, service |-> <<>>]
      [] payload = pNoPackage -> [package |-> <<>>, service |-> <<GreeterProto>>]
      [] payload = pNoServiceName ->
            [package |-> <<"pkg">>,
             service |-> <<[name |-> <<>>, method |-> <<SayHelloProto>>]>>]
      [] payload = pNoMethodName ->
            [package |-> <<"pkg">>,
             service |-> <<[name |-> <<"Greeter">>,
                            method |-> <<[SayHelloProto EXCEPT !.name = <<>>]>>]>>]
      [] payload = pNoRequest ->
            [package |-> <<"pkg">>,
             service |-> <<[name |-> <<"Greeter">>,
                            method |-> <<[SayHelloProto EXCEPT !.input_type = <<>>]>>]>>]
      [] payload = pNoResponse ->
            [package |-> <<"pkg">>,
             service |-> <<[name |-> <<"Greeter">>,
                            method |-> <<[SayHelloProto EXCEPT !.output_type = <<>>]>>]>>]

\* C11 (get_file_descriptor): it sends exactly one FileContainingSymbol
\* request and, on a FileDescriptorResponse, returns what the payloads decode
\* to, in response order; if a payload fails to decode it returns DecodeError
\* and none of the descriptors decoded before it.
C11_GetFileDescriptor ==
    ReturnedFrom("get_file_descriptor") =>
        /\ Len(sent) = 1 /\ Len(rcvd) = 1
        /\ sent[1].message_request = "FileContainingSymbol"
        /\ sent[1].arg \in Symbols
        /\ (rcvd[1].t = "Msg" /\ rcvd[1].v = "FileDescriptorResponse") =>
              LET raw == rcvd[1].file_descriptor_proto
              IN IF \E j \in 1..Len(raw) : raw[j] = pMalformed
                 THEN /\ result.k = "Err"
                      /\ result.err.kind = "DecodeError"
                      /\ result.val = <<>>
                 ELSE result = Ok([j \in 1..Len(raw) |-> DescriptorOf(raw[j])])

\* The second payload fails to decode after the first was decoded.
C11_Witness ==
    /\ ReturnedFrom("get_file_descriptor")
    /\ sent = <<FileContainingSymbolRequest("pkg.Greeter")>>
    /\ rcvd = <<FileDescriptorResponse(<<pGreeter, pMalformed>>)>>
    /\ result = Err(DecodeError)

\* Whether the exchange of request with reply fails: transport error, no
\* response, a variant other than the one the request calls for, or a payload
\* that does not decode.
ExchangeFailed(request, reply) ==
    \/ reply.t \in {"OpenErr", "ItemErr", "End"}
    \/ /\ reply.t = "Msg" /\ reply.v # "None"
       /\ \/ request.message_request = "ListServices" /\ reply.v # "ListServicesResponse"
          \/ request.message_request = "FileContainingSymbol" /\ FetchFailure(reply) # ""

\* C12 (no retry): after an exchange of a call failed no further request is
\* sent in that call: the failing exchange is the last one and the call is over.
C12_NoRetry ==
    \A k \in 1..Len(rcvd) :
        ExchangeFailed(sent[k], rcvd[k]) =>
            /\ Len(sent) = k
            /\ Len(rcvd) = k
            /\ pc = "returned"
            /\ result.k = "Err"

\* The first phase-2 exchange of two fails; only two requests were sent.
C12_Witness ==
    /\ ReturnedFrom("list_services")
    /\ Phase1Names = <<"pkg.Greeter", "pkg.Health">>
    /\ rcvd[2] = StreamErrors
    /\ sent = <<ListServicesRequest, FileContainingSymbolRequest("pkg.Greeter")>>

\* C15 (no validation in get_file_descriptor): a response whose payloads all
\* decode is returned by get_file_descriptor as Ok, one descriptor per
\* payload, whatever fields the descriptors lack; a MissingField error comes
\* only from list_services.
C15_NoValidationInFetch ==
    /\ ( /\ ReturnedFrom("get_file_descriptor")
         /\ rcvd[1].t = "Msg" /\ rcvd[1].v = "FileDescriptorResponse"
         /\ \A j \in 1..Len(rcvd[1].file_descriptor_proto) :
               rcvd[1].file_descriptor_proto[j] # pMalformed )
       => /\ result.k = "Ok"
          /\ Len(result.val) = Len(rcvd[1].file_descriptor_proto)
    /\ (pc = "returned" /\ result.err.kind = "MissingField") => op = "list_services"

\* A descriptor without a package comes back from get_file_descriptor.
C15_Witness ==
    /\ ReturnedFrom("get_file_descriptor")
    /\ rcvd = <<FileDescriptorResponse(<<pNoPackage>>)>>
    /\ result.k = "Ok"
    /\ result.val[1].package = None
    /\ result.val[1].service # <<>>

\* Whether a phase-2 reply ends list_services: the fetch fails, or a payload
\* of it decodes to a service definition lacking a required field.
EndsFanOut(reply) ==
    \/ FetchFailure(reply) # ""
    \/ /\ reply.t = "Msg" /\ reply.v = "FileDescriptorResponse"
       /\ \E j \in 1..Len(reply.file_descriptor_proto) :
             reply.file_descriptor_proto[j] \in IncompletePayloads

\* C17 (fail-fast): once the exchange for a name fails, or a descriptor
\* fetched for it fails validation, no request for a later name is sent; the
\* descriptors of an exchange have passed validation whenever a later request
\* has been sent.
C17_FailFast ==
    InListServices =>
        \A k \in 2..Len(rcvd) :
            /\ EndsFanOut(rcvd[k]) => Len(sent) = k
            /\ k < Len(sent) =>
                  /\ rcvd[k].v = "FileDescriptorResponse"
                  /\ \A j \in 1..Len(rcvd[k].file_descriptor_proto) :
                        rcvd[k].file_descriptor_proto[j] \in ValidPayloads

\* The descriptor fetched for the first of two names lacks its package: the
\* second name is never asked for.
C17_Witness ==
    /\ ReturnedFrom("list_services")
    /\ Phase1Names = <<"pkg.Greeter", "pkg.Health">>
    /\ rcvd[2] = FileDescriptorResponse(<<pNoPackage>>)
    /\ Len(sent) = 2
    /\ result.err.kind = "MissingField"

\* Whether an operation is waiting for the reply of an exchange.
Waiting == pc \in {"phase1", "phase2", "fetch"}

\* C16 (one stream per exchange, one exchange at a time): every request is
\* sent on a stream of its own (an entry of sent is the whole outbound content
\* of one stream) and one inbound item is consumed for it; a request is sent
\* only when every earlier one has its reply, so at most one stream is open
\* and the ListServices exchange is over before any FileContainingSymbol
\* request; items after the first are ignored: the outcome of an exchange is
\* that of its first item.
C16_OneExchangeAtATime ==
    /\ Len(sent) = Len(rcvd) + (IF Waiting THEN 1 ELSE 0)
    /\ InListServices =>
          /\ sent[1] = ListServicesRequest
          /\ \A k \in 2..Len(sent) : sent[k].message_request = "FileContainingSymbol"
          /\ Len(sent) >= 2 => Phase1Listed
    /\ \A k \in 1..Len(rcvd) :
          (rcvd[k].rest # <<>> /\ sent[k].message_request = "FileContainingSymbol") =>
              IF FetchFailure(rcvd[k]) # ""
              THEN /\ k = Len(rcvd) /\ pc = "returned"
                   /\ result.k = "Err"
                   /\ result.err.kind = FetchFailure(rcvd[k])
              ELSE \/ Len(sent) > k
                   \/ /\ pc = "returned" /\ result.k = "Ok"
                      /\ op = "get_file_descriptor" =>
                            result.val = <<DescriptorOf(pGreeter)>>
                      /\ op = "list_services" =>
                            result.val[Len(result.val)] = GreeterInfo

\* The phase-1 stream holds further items after its list, and the phase-2
\* stream yields a descriptor and then an error response; the first item of
\* each is used and the call returns the catalog.
C16_Witness ==
    /\ InListServices
    /\ pc = "returned"
    /\ Len(sent) = 2 /\ Len(rcvd) = 2
    /\ rcvd[1].rest # <<>>
    /\ rcvd[2] = FollowedBy(FileDescriptorResponse(<<pGreeter>>), <<ErrorResponse>>)
    /\ result = Ok(<<GreeterInfo>>)

\* The methods of a service of a catalog have pairwise different names.
DistinctMethodNames(service) ==
    \A a, b \in 1..Len(service.methods) :
        a # b => service.methods[a].name # service.methods[b].name

\* C13 (method identity), as claimed: in every catalog returned by
\* list_services no two methods of a service have the same name.
C13_MethodIdentity ==
    (ReturnedFrom("list_services") /\ result.k = "Ok") =>
        \A a \in 1..Len(result.val) : DistinctMethodNames(result.val[a])

\* C13 as amended: the same, for the calls in which no service definition of
\* a fetched descriptor declares two methods of the same name (the client
\* copies the method names of the definition, in order, and checks nothing).
C13_MethodIdentityFromDescriptor ==
    ( /\ ReturnedFrom("list_services") /\ result.k = "Ok"
      /\ \A k \in 2..Len(rcvd) : \A j \in 1..Len(rcvd[k].file_descriptor_proto) :
            rcvd[k].file_descriptor_proto[j] # pDupMethods )
    => \A a \in 1..Len(result.val) :
          /\ DistinctMethodNames(result.val[a])
          /\ result.val[a] \in {HealthInfo, GreeterInfo}

\* A catalog with a service of two methods, Ping and SayHello.
C13_Witness ==
    /\ ReturnedFrom("list_services")
    /\ rcvd = << ListServicesResponse(<<"pkg.Health">>),
                 FileDescriptorResponse(<<pTwoServices>>) >>
    /\ result = Ok(<<HealthInfo, GreeterInfo>>)

\* The error list_services returns for a payload that fails validation,
\* written out by hand.
MissingIn(payload) ==
    CASE payload = pNoPackage ->
            MissingField("Package name is missing for service", << <<"Greeter">> >>)
      [] payload = pNoServiceName ->
            MissingField("Service name is missing for package", << <<"pkg">> >>)
      [] payload = pAllAbsent ->
            MissingField("Method name is missing for service", << <<>> >>)
      [] payload = pNoTypesNoPackage ->
            MissingField("Request type is missing for method in service",
                         << <<"SayHello">>, <<"Greeter">> >>)
      [] payload = pNoResponseNoPackageNoServiceName ->
            MissingField("Response type is missing for method in service",
                         << <<"SayHello">>, <<>> >>)
      [] payload = pNoPackageNoServiceName ->
            MissingField("Package name is missing for service", << <<>> >>)
      [] payload = pSecondMethodNamelessNoPackage ->
            MissingField("Method name is missing for service", << <<"Greeter">> >>)
      [] payload = pFirstNoResponseSecondNameless ->
            MissingField("Response type is missing for method in service",
                         << <<"SayHello">>, <<"Greeter">> >>)
      [] OTHER -> NoError

\* C18 (MissingField identity and precedence): a service definition with
\* complete methods in a descriptor without package fails list_services with
\* the package error naming the service; when several fields are absent the
\* error is the first absence in the order method name, request type,
\* response type (method by method), then package, then service name.
C18_MissingFieldPrecedence ==
    InListServices =>
        \A k \in 2..Len(rcvd) :
            ( /\ rcvd[k].t = "Msg" /\ rcvd[k].v = "FileDescriptorResponse"
              /\ \E j \in 1..Len(rcvd[k].file_descriptor_proto) :
                    MissingIn(rcvd[k].file_descriptor_proto[j]) # NoError )
            => LET raw == rcvd[k].file_descriptor_proto
                   first == CHOOSE j \in 1..Len(raw) :
                               /\ MissingIn(raw[j]) # NoError
                               /\ \A h \in 1..(j - 1) : MissingIn(raw[h]) = NoError
               IN /\ pc = "returned"
                  /\ result = Err(MissingIn(raw[first]))

\* No package and a second method without name: the method name is reported.
C18_Witness ==
    /\ ReturnedFrom("list_services")
    /\ rcvd = << ListServicesResponse(<<"pkg.Greeter">>),
                 FileDescriptorResponse(<<pSecondMethodNamelessNoPackage>>) >>
    /\ result = Err(MissingField("Method name is missing for service",
                                 << <<"Greeter">> >>))

\* C14 (no cross-call state): whatever calls the client completed before, a
\* list_services call that receives the same replies as an earlier one (the
\* first of which ran on the fresh client) sends the same requests and returns
\* the same result; a successful call has sent all its 1 + N requests again.
C14_NoCrossCallState ==
    ReturnedFrom("list_services") =>
        /\ \A e \in 1..Len(earlier) :
              (earlier[e].op = "list_services" /\ earlier[e].rcvd = rcvd) =>
                  /\ earlier[e].result = result
                  /\ earlier[e].sent = sent
        /\ result.k = "Ok" =>
              /\ Len(sent) = 1 + Len(Phase1Names)
              /\ Len(rcvd) = Len(sent)

\* A successful call on the fresh client, then a failed call, then the
\* replies of the first call again: the same catalog.
C14_Witness ==
    /\ ReturnedFrom("list_services")
    /\ Len(earlier) = 2
    /\ earlier[1].op = "list_services"
    /\ earlier[1].result = Ok(<<GreeterInfo, GreeterInfo>>)
    /\ earlier[2].op = "list_services"
    /\ earlier[2].result.k = "Err"
    /\ rcvd = earlier[1].rcvd
    /\ Len(sent) = 3
    /\ result = Ok(<<GreeterInfo, GreeterInfo>>)

\* C19 (termination): a list_services call sends at most 1 + N requests, N
\* the number of names phase 1 received, and at every moment it has returned
\* a catalog or an error or is waiting for an exchange (which delivers by
\* hypothesis): it returns after at most 1 + N exchanges.
C19_Terminates ==
    InListServices =>
        /\ Len(sent) <= 1 + (IF Phase1Listed THEN Len(Phase1Names) ELSE 0)
        /\ \/ pc \in {"phase1", "phase2"}
           \/ pc = "returned" /\ result.k \in {"Ok", "Err"}

\* C20 (CLI loop): `list services` (any case, trimmed) runs list_services and
\* the loop is back at the prompt after success and after failure, the process
\* never ending on a failure; `exit` (any case) ends the loop; anything else
\* prints the notice and prompts again; the loop ends only on `exit`.
C20_CliLoop ==
    cli # "off" =>
        /\ cli \in {"prompt", "listing", "exited"}
        /\ cli = "exited" => eq_ignore_ascii_case(input, ExitCommand)
        /\ cli = "listing" => eq_ignore_ascii_case(input, ListServicesCommand)
        /\ cli = "prompt" => pc = "idle"
        /\ cli = "prompt" /\ out # NoOutput =>
              /\ out.text \in {"Service:", "Error listing services:"}
                    <=> eq_ignore_ascii_case(input, ListServicesCommand)
              /\ out.text = "Unrecognized command."
                    <=> /\ ~eq_ignore_ascii_case(input, ListServicesCommand)
                        /\ ~eq_ignore_ascii_case(input, ExitCommand)

====
